---- MODULE Spec2Model ----
(***************************************************************************)
(* A model of the ssebidecoin ledger core: lib/src/types.rs (Block and its *)
(* transaction verification), lib/src/types/blockchain.rs (Blockchain:     *)
(* chain, UTXO set, mempool, difficulty), lib/src/utils.rs (MerkleRoot)    *)
(* and lib/src/sha256.rs (Hash).                                           *)
(*                                                                         *)
(* Hashing.  Hash::hash is SHA-256 over the CBOR encoding of a record.  It *)
(* is modelled as a collision-free constructor: the hash of a record is    *)
(* the record tagged with its type, so two hashes are equal exactly when   *)
(* the hashed records are equal.  The 256-bit number a hash denotes is     *)
(* only read by matches_target; HashValue gives it.                        *)
(*                                                                         *)
(* Integers.  u64 is modelled with U64Bits bits, U256 with U256Bits bits,  *)
(* and the `as u32` cast with U32Bits bits, all far narrower than in the   *)
(* program so that TLC can enumerate them; the amounts (INITIAL_REWARD,    *)
(* 10^8 sub-units) are scaled down with them.  Arithmetic that overflows   *)
(* panics in a build with overflow checks (cargo's dev profile) and wraps  *)
(* in a build without (cargo's release profile): overflow_checks, chosen   *)
(* in Init, says which build runs.                                         *)
(***************************************************************************)
EXTENDS Integers, Sequences, FiniteSets, TLC

VARIABLES
    blocks,           \* Blockchain.blocks: Vec<Block>
    target,           \* Blockchain.target: U256
    utxos,            \* Blockchain.utxos: HashMap<Hash, (bool, TransactionOutput)>
    mempool,          \* Blockchain.mempool: Vec<(DateTime<Utc>, Transaction)>
    now,              \* the wall clock Utc::now() reads
    overflow_checks,  \* whether the build panics on integer overflow
    op,               \* the last operation called
    arg,              \* its argument
    result            \* its outcome: "Ok", an SbdError kind, or "panic"

vars == <<blocks, target, utxos, mempool, now, overflow_checks, op, arg, result>>

(***************************************************************************)
(* Bounds of the model.                                                    *)
(***************************************************************************)
MaxBlocks == 2      \* add_block is explored while the chain is shorter
MaxTime == 2        \* the clock and header timestamps range over 0..MaxTime
MaxMempool == 2     \* add_to_mempool is explored while the pool is shorter
U64Bits == 5        \* width of the model's u64
U32Bits == 3        \* width of the model's u32 (the `as u32` cast)
U256Bits == 6       \* width of the model's U256

MerkleMaxLen == 4   \* the longest transaction list MerkleRoot::calculate is applied to

U64Mod == 2 ^ U64Bits
U32Mod == 2 ^ U32Bits
U256Mod == 2 ^ U256Bits

(***************************************************************************)
(* Program constants of the crate root (crate::INITIAL_REWARD, ...), with  *)
(* values scaled down with the integer widths.                             *)
(***************************************************************************)
INITIAL_REWARD == 2
SubUnitsPerCoin == 4               \* 10u64.pow(8), scaled
HALVING_INTERVAL == 2
IDEAL_BLOCK_TIME == 1
DIFFICULTY_UPDATE_INTERVAL == 2
MAX_MEMPOOL_TRANSACTION_AGE == 1
MIN_TARGET == 2 ^ (U256Bits - 2) - 1

(***************************************************************************)
(* Outcomes.                                                               *)
(***************************************************************************)
Ok == "Ok"
InvalidBlock == "InvalidBlock"
InvalidMerkleRoot == "InvalidMerkleRoot"
InvalidTransaction == "InvalidTransaction"
InvalidSignature == "InvalidSignature"
Panic == "panic"
SbdError == {InvalidBlock, InvalidMerkleRoot, InvalidTransaction, InvalidSignature}

\* The value of an integer expression whose evaluation panicked.
Aborted == -1

(***************************************************************************)
(* sha256.rs: Hash.                                                        *)
(***************************************************************************)
Zero == <<"zero">>
HashTransaction(tx) == <<"transaction", tx>>
HashOutput(output) == <<"output", output>>
HashBlock(block) == <<"block", block>>
HashHeader(header) == <<"header", header>>
HashPair(left, right) == <<"pair", left, right>>

\* The number a header hash denotes.  SHA-256 mixes every field; the model
\* mixes the numeric ones, which is what a miner varies (the nonce).
HashValue(h) ==
    IF h = Zero THEN 0
    ELSE IF h[1] = "header"
         THEN (7 * h[2].nonce + 3 * h[2].timestamp + 5) % U256Mod
         ELSE U256Mod - 1

matches_target(h, t) == HashValue(h) <= t

(***************************************************************************)
(* Records of types.rs.                                                    *)
(***************************************************************************)
TransactionOutput(value, unique_id, pubkey) ==
    [value |-> value, unique_id |-> unique_id, pubkey |-> pubkey]

\* crypto.rs is not among the sources.  A signature is the signed hash and
\* the key that signed it; it verifies against that hash and that key only.
Signature(msg, key) == [msg |-> msg, key |-> key]
SignatureVerify(signature, msg, pubkey) ==
    signature.msg = msg /\ signature.key = pubkey

TransactionInput(prev, signature) ==
    [prev_transaction_output_hash |-> prev, signature |-> signature]

Transaction(inputs, outputs) == [inputs |-> inputs, outputs |-> outputs]

BlockHeader(timestamp, nonce, prev_block_hash, merkle_root, tgt) ==
    [timestamp |-> timestamp, nonce |-> nonce, prev_block_hash |-> prev_block_hash,
     merkle_root |-> merkle_root, target |-> tgt]

Block(header, transactions) == [header |-> header, transactions |-> transactions]

(***************************************************************************)
(* u64 arithmetic.                                                         *)
(***************************************************************************)
WrapU64(n) ==
    IF 0 <= n /\ n < U64Mod THEN n
    ELSE IF overflow_checks THEN Aborted
    ELSE n % U64Mod

AddU64(a, b) == IF a = Aborted \/ b = Aborted THEN Aborted ELSE WrapU64(a + b)
SubU64(a, b) == IF a = Aborted \/ b = Aborted THEN Aborted ELSE WrapU64(a - b)

RECURSIVE SumValues(_)
\* the mathematical sum of the values of a sequence of outputs
SumValues(outputs) ==
    IF outputs = <<>> THEN 0
    ELSE outputs[1].value + SumValues(Tail(outputs))

\* iter().map(|o| o.value).sum::<u64>(): the partial sums only grow, so the
\* sum overflows exactly when the total does.
SumU64(outputs) == WrapU64(SumValues(outputs))

\* 2u64.pow(e): 2^e, which overflows from e = 64 on (to 0 when it wraps).
Pow2U64(e) ==
    IF e < U64Bits THEN 2 ^ e
    ELSE IF overflow_checks THEN Aborted
    ELSE 0

\* a / b on u64: division by zero panics in every build.
DivU64(a, b) ==
    IF a = Aborted \/ b = Aborted \/ b = 0 THEN Aborted ELSE a \div b

(***************************************************************************)
(* utils.rs: MerkleRoot::calculate.                                        *)
(***************************************************************************)
RECURSIVE MerkleLayerCarry(_)
\* a faulty variant of the level below that passes an unpaired last hash up
\* as it is; C23 must tell it from the original
MerkleLayerCarry(layer) ==
    IF layer = <<>> THEN <<>>
    ELSE IF Len(layer) = 1 THEN <<layer[1]>>
    ELSE <<HashPair(layer[1], layer[2])>> \o MerkleLayerCarry(SubSeq(layer, 3, Len(layer)))

RECURSIVE MerkleLayer(_)
\* one level: layer.chunks(2), an unpaired last hash paired with itself
MerkleLayer(layer) ==
    IF layer = <<>> THEN <<>>
    ELSE IF Len(layer) = 1 THEN <<HashPair(layer[1], layer[1])>>
    ELSE <<HashPair(layer[1], layer[2])>> \o MerkleLayer(SubSeq(layer, 3, Len(layer)))

RECURSIVE MerkleReduce(_)
MerkleReduce(layer) ==
    IF Len(layer) > 1 THEN MerkleReduce(MerkleLayer(layer)) ELSE layer

\* What a call that panicked yields in place of a root.
MerklePanic == <<"panic">>

\* layer[0] of an empty list is out of bounds: the call panics.
MerkleRootCalculate(transactions) ==
    LET layer == MerkleReduce([i \in 1..Len(transactions) |->
                                   HashTransaction(transactions[i])])
    IN  IF layer = <<>> THEN MerklePanic ELSE <<"merkle", layer[1]>>

(***************************************************************************)
(* types.rs: Block::calculate_miner_fees.  utxo maps a hash to an output.  *)
(***************************************************************************)
RECURSIVE SumKeys(_, _)
\* inputs.values().map(|output| output.value), summed mathematically
SumKeys(keys, utxo) ==
    IF keys = {} THEN 0
    ELSE LET k == CHOOSE x \in keys : TRUE
         IN  utxo[k].value + SumKeys(keys \ {k}, utxo)

RECURSIVE SumSet(_)
\* outputs.values().map(|output| output.value), summed mathematically
SumSet(outs) ==
    IF outs = {} THEN 0
    ELSE LET o == CHOOSE x \in outs : TRUE
         IN  o.value + SumSet(outs \ {o})

RECURSIVE FeeInputsUnguarded(_, _, _)
\* a faulty variant of the loop below that inserts into `inputs` without
\* looking for the key first; C9 must tell it from the original
FeeInputsUnguarded(ins, seen, utxo) ==
    IF ins = <<>> THEN [err |-> Ok, seen |-> seen]
    ELSE LET h == ins[1].prev_transaction_output_hash
         IN  IF h \notin DOMAIN utxo THEN [err |-> InvalidTransaction, seen |-> seen]
             ELSE FeeInputsUnguarded(Tail(ins), seen \cup {h}, utxo)

RECURSIVE FeeInputs(_, _, _)
\* the loop over one transaction's inputs; seen is the key set of `inputs`
FeeInputs(ins, seen, utxo) ==
    IF ins = <<>> THEN [err |-> Ok, seen |-> seen]
    ELSE LET h == ins[1].prev_transaction_output_hash
         IN  IF h \notin DOMAIN utxo THEN [err |-> InvalidTransaction, seen |-> seen]
             ELSE IF h \in seen THEN [err |-> InvalidTransaction, seen |-> seen]
             ELSE FeeInputs(Tail(ins), seen \cup {h}, utxo)

RECURSIVE FeeOutputs(_, _)
\* the loop over one transaction's outputs; outs is `outputs`, keyed by
\* output.hash(), which is one-to-one with the output
FeeOutputs(os, outs) ==
    IF os = <<>> THEN [err |-> Ok, outs |-> outs]
    ELSE IF os[1] \in outs THEN [err |-> InvalidTransaction, outs |-> outs]
    ELSE FeeOutputs(Tail(os), outs \cup {os[1]})

RECURSIVE FeeTransactions(_, _, _, _)
\* the loop over the transactions after the coinbase
FeeTransactions(txs, seen, outs, utxo) ==
    IF txs = <<>> THEN [err |-> Ok, seen |-> seen, outs |-> outs]
    ELSE LET i == FeeInputs(txs[1].inputs, seen, utxo)
         IN  IF i.err # Ok THEN [err |-> i.err, seen |-> seen, outs |-> outs]
             ELSE LET o == FeeOutputs(txs[1].outputs, outs)
                  IN  IF o.err # Ok THEN [err |-> o.err, seen |-> seen, outs |-> outs]
                      ELSE FeeTransactions(Tail(txs), i.seen, o.outs, utxo)

\* [err, val]: Ok with the fee, InvalidTransaction, or a panic
calculate_miner_fees(block, utxo) ==
    LET \* self.transactions.iter().skip(1): nothing when the block is empty
        rest == IF block.transactions = <<>> THEN <<>> ELSE Tail(block.transactions)
        r == FeeTransactions(rest, {}, {}, utxo)
    IN  IF r.err # Ok THEN [err |-> r.err, val |-> 0]
        ELSE LET input_value == WrapU64(SumKeys(r.seen, utxo))
                 output_value == WrapU64(SumSet(r.outs))
                 fee == SubU64(input_value, output_value)
             IN  IF fee = Aborted THEN [err |-> Panic, val |-> 0]
                 ELSE [err |-> Ok, val |-> fee]

(***************************************************************************)
(* types.rs: Block::verify_coinbase_transaction.                           *)
(***************************************************************************)
\* INITIAL_REWARD * 10^8 / 2^((height / HALVING_INTERVAL) as u32)
block_reward(height) ==
    DivU64(INITIAL_REWARD * SubUnitsPerCoin,
           Pow2U64((height \div HALVING_INTERVAL) % U32Mod))

verify_coinbase_transaction(block, height, utxo) ==
    IF block.transactions = <<>> THEN Panic            \* self.transactions[0]
    ELSE LET coinbase_transaction == block.transactions[1]
         IN  IF Len(coinbase_transaction.inputs) # 0 THEN InvalidTransaction
             ELSE IF Len(coinbase_transaction.outputs) = 0 THEN InvalidTransaction
             ELSE LET miner_fees == calculate_miner_fees(block, utxo)
                  IN  IF miner_fees.err # Ok THEN miner_fees.err
                      ELSE LET reward == block_reward(height)
                               total_coinbase_outputs ==
                                   SumU64(coinbase_transaction.outputs)
                               due == AddU64(reward, miner_fees.val)
                           IN  IF reward = Aborted THEN Panic
                               ELSE IF total_coinbase_outputs = Aborted THEN Panic
                               ELSE IF due = Aborted THEN Panic
                               ELSE IF total_coinbase_outputs # due
                                    THEN InvalidTransaction
                                    ELSE Ok

(***************************************************************************)
(* types.rs: Block::verify_transactions.                                   *)
(***************************************************************************)
RECURSIVE VerifyInputs(_, _, _, _)
\* the loop over one transaction's inputs: [err, seen, input_value]
VerifyInputs(ins, seen, input_value, utxo) ==
    IF ins = <<>> THEN [err |-> Ok, seen |-> seen, val |-> input_value]
    ELSE LET h == ins[1].prev_transaction_output_hash
         IN  IF h \notin DOMAIN utxo
             THEN [err |-> InvalidTransaction, seen |-> seen, val |-> 0]
             ELSE IF h \in seen
             THEN [err |-> InvalidTransaction, seen |-> seen, val |-> 0]
             ELSE IF ~SignatureVerify(ins[1].signature, h, utxo[h].pubkey)
             THEN [err |-> InvalidSignature, seen |-> seen, val |-> 0]
             ELSE LET v == AddU64(input_value, utxo[h].value)
                  IN  IF v = Aborted THEN [err |-> Panic, seen |-> seen, val |-> 0]
                      ELSE VerifyInputs(Tail(ins), seen \cup {h}, v, utxo)

RECURSIVE VerifyEach(_, _, _)
\* the loop over the transactions after the coinbase
VerifyEach(txs, seen, utxo) ==
    IF txs = <<>> THEN Ok
    ELSE LET i == VerifyInputs(txs[1].inputs, seen, 0, utxo)
             output_value == SumU64(txs[1].outputs)
         IN  IF i.err # Ok THEN i.err
             ELSE IF output_value = Aborted THEN Panic
             ELSE IF i.val < output_value THEN InvalidTransaction
             ELSE VerifyEach(Tail(txs), i.seen, utxo)

verify_transactions(block, height, utxo) ==
    IF block.transactions = <<>> THEN InvalidTransaction
    ELSE LET c == verify_coinbase_transaction(block, height, utxo)
         IN  IF c # Ok THEN c
             ELSE VerifyEach(Tail(block.transactions), {}, utxo)

(***************************************************************************)
(* blockchain.rs: the UTXO map, HashMap<Hash, (bool, TransactionOutput)>.  *)
(***************************************************************************)
EmptyMap == [k \in {} |-> 0]
MapRemove(m, k) == [x \in DOMAIN m \ {k} |-> m[x]]
MapInsert(m, k, v) == [x \in DOMAIN m \cup {k} |-> IF x = k THEN v ELSE m[x]]
UtxoEntry(marked, output) == [marked |-> marked, output |-> output]
\* entry(k).and_modify(|(marked, _)| *marked = b): nothing when k is absent
SetMark(m, k, b) ==
    IF k \in DOMAIN m
    THEN [m EXCEPT ![k] = UtxoEntry(b, m[k].output)]
    ELSE m
\* the view of the map verify_transactions reads: hash -> output
Outputs(m) == [k \in DOMAIN m |-> m[k].output]

(***************************************************************************)
(* blockchain.rs: Blockchain::rebuild_utxos.                               *)
(***************************************************************************)
RECURSIVE RemoveInputs(_, _)
RemoveInputs(m, ins) ==
    IF ins = <<>> THEN m
    ELSE RemoveInputs(MapRemove(m, ins[1].prev_transaction_output_hash), Tail(ins))

RECURSIVE InsertOutputs(_, _, _)
\* every output of a transaction goes under the transaction's hash
InsertOutputs(m, h, outs) ==
    IF outs = <<>> THEN m
    ELSE InsertOutputs(MapInsert(m, h, UtxoEntry(FALSE, outs[1])), h, Tail(outs))

RebuildTransaction(m, tx) ==
    InsertOutputs(RemoveInputs(m, tx.inputs), HashTransaction(tx), tx.outputs)

RECURSIVE RebuildTransactions(_, _)
RebuildTransactions(m, txs) ==
    IF txs = <<>> THEN m
    ELSE RebuildTransactions(RebuildTransaction(m, txs[1]), Tail(txs))

RECURSIVE rebuild_utxos(_, _)
\* the map after the call, from the map before it and the chain
rebuild_utxos(m, blks) ==
    IF blks = <<>> THEN m
    ELSE rebuild_utxos(RebuildTransactions(m, blks[1].transactions), Tail(blks))

(***************************************************************************)
(* blockchain.rs: Blockchain::try_adjust_target.  The new target, or       *)
(* Aborted when the call panics.                                           *)
(***************************************************************************)
\* the digits BigDecimal's `/` keeps after the decimal point before it stops
\* (the crate's default precision, scaled down)
DecimalPrecision == 3

\* integer division that truncates toward zero
TruncDiv(a, b) == IF a >= 0 THEN a \div b ELSE -((-a) \div b)

\* a BigDecimal is [digits, scale]: the value digits / 10^scale
DecimalFrom(n) == [digits |-> n, scale |-> 0]

\* BigDecimal `/`: the quotient to DecimalPrecision places
DecimalDivide(a, b) ==
    [digits |-> TruncDiv(a.digits * 10 ^ DecimalPrecision, b.digits),
     scale |-> DecimalPrecision]

\* BigDecimal `*`: exact
DecimalTimes(a, b) == [digits |-> a.digits * b.digits, scale |-> a.scale + b.scale]

\* to_string().split('.').next(): the text before the decimal point, as its
\* sign and the number its digits spell ("-0" for -0.5)
DecimalWhole(d) ==
    [negative |-> d.digits < 0,
     whole |-> (IF d.digits < 0 THEN -d.digits ELSE d.digits) \div (10 ^ d.scale)]

\* the span between the block DIFFICULTY_UPDATE_INTERVAL positions before
\* the end of the chain and the last block, in whole seconds
TimeDiffSeconds(blks) ==
    blks[Len(blks)].header.timestamp
        - blks[Len(blks) - DIFFICULTY_UPDATE_INTERVAL + 1].header.timestamp

\* new_target_str: the current target times (actual span / ideal span), cut
\* at the decimal point
NewTargetStr(blks, tgt) ==
    LET target_seconds == IDEAL_BLOCK_TIME * DIFFICULTY_UPDATE_INTERVAL
    IN  DecimalWhole(DecimalTimes(DecimalFrom(tgt),
                                  DecimalDivide(DecimalFrom(TimeDiffSeconds(blks)),
                                                DecimalFrom(target_seconds))))

\* U256::from_str_radix(str, 10): fails on a '-' and on a number of more
\* than 256 bits
ParseU256(str) ==
    IF str.negative \/ str.whole >= U256Mod THEN Aborted ELSE str.whole

\* a faulty variant of try_adjust_target that recomputes the target after
\* every block once the chain is long enough; C17 must tell it from the
\* original
try_adjust_target_every_block(blks, tgt) ==
    IF Len(blks) < DIFFICULTY_UPDATE_INTERVAL THEN tgt
    ELSE LET parsed == ParseU256(NewTargetStr(blks, tgt))
         IN  IF parsed = Aborted THEN Aborted
             ELSE IF parsed < tgt \div 4 THEN tgt \div 4
             ELSE IF tgt * 4 >= U256Mod THEN Aborted
             ELSE IF parsed > tgt * 4 THEN tgt * 4
             ELSE parsed

try_adjust_target(blks, tgt) ==
    IF blks = <<>> THEN tgt
    ELSE IF Len(blks) % DIFFICULTY_UPDATE_INTERVAL # 0 THEN tgt
    ELSE LET parsed == ParseU256(NewTargetStr(blks, tgt))
         IN  \* U256::from_str_radix(..).expect(..)
             IF parsed = Aborted THEN Aborted
             ELSE IF parsed < tgt \div 4
                  THEN IF tgt \div 4 < MIN_TARGET THEN tgt \div 4 ELSE MIN_TARGET
             \* U256's `*` panics on overflow in every build
             ELSE IF tgt * 4 >= U256Mod THEN Aborted
             ELSE IF parsed > tgt * 4
                  THEN IF tgt * 4 < MIN_TARGET THEN tgt * 4 ELSE MIN_TARGET
             ELSE IF parsed < MIN_TARGET THEN parsed ELSE MIN_TARGET

(***************************************************************************)
(* blockchain.rs: Blockchain::add_block.                                   *)
(***************************************************************************)
block_height(blks) == Len(blks)

\* The checks the source labels "if this is not the first block".  They sit
\* in the else of the zero-hash test, inside `if self.blocks.is_empty()`:
\* last() of the empty chain is None, and unwrap() panics on it.
LaterBlockChecks(blks, m, block) ==
    IF blks = <<>> THEN Panic
    ELSE LET last_block == blks[Len(blks)]
             calculated_merkle_root == MerkleRootCalculate(block.transactions)
         IN  IF block.header.prev_block_hash # HashBlock(last_block) THEN InvalidBlock
             ELSE IF ~matches_target(HashHeader(block.header), block.header.target)
                  THEN InvalidBlock
             ELSE IF calculated_merkle_root = MerklePanic THEN Panic
             ELSE IF calculated_merkle_root # block.header.merkle_root
                  THEN InvalidMerkleRoot
             ELSE IF block.header.timestamp <= last_block.header.timestamp
                  THEN InvalidBlock
             ELSE verify_transactions(block, block_height(blks), Outputs(m))

\* the body of `if self.blocks.is_empty()`
FirstBlockChecks(blks, m, block) ==
    IF block.header.prev_block_hash # Zero THEN InvalidBlock
    ELSE LaterBlockChecks(blks, m, block)

AddBlockChecks(blks, m, block) ==
    IF blks = <<>> THEN FirstBlockChecks(blks, m, block) ELSE Ok

\* mempool.retain(|tx| !block_transactions.contains(&tx.1.hash()))
PruneMempool(pool, block) ==
    LET block_transactions ==
            {HashTransaction(block.transactions[i]) : i \in 1..Len(block.transactions)}
    IN  SelectSeq(pool, LAMBDA e : HashTransaction(e.tx) \notin block_transactions)

\* a faulty variant of add_block that pushes the block and prunes the
\* mempool before it validates; C7 must tell it from the original
add_block_push_first(blks, tgt, m, pool, block) ==
    LET checked == AddBlockChecks(blks, m, block)
        pushed == Append(blks, block)
        adjusted == try_adjust_target(pushed, tgt)
    IN  IF checked # Ok
        THEN [result |-> checked, blocks |-> pushed, target |-> tgt,
              mempool |-> PruneMempool(pool, block)]
        ELSE IF adjusted = Aborted
        THEN [result |-> Panic, blocks |-> pushed, target |-> tgt,
              mempool |-> PruneMempool(pool, block)]
        ELSE [result |-> Ok, blocks |-> pushed, target |-> adjusted,
              mempool |-> PruneMempool(pool, block)]

\* [result, blocks, target, mempool] after add_block(block); the UTXO map
\* is not written.  A panic in try_adjust_target comes after the push.
add_block(blks, tgt, m, pool, block) ==
    LET checked == AddBlockChecks(blks, m, block)
        pushed == Append(blks, block)
        adjusted == try_adjust_target(pushed, tgt)
    IN  IF checked # Ok
        THEN [result |-> checked, blocks |-> blks, target |-> tgt, mempool |-> pool]
        ELSE IF adjusted = Aborted
        THEN [result |-> Panic, blocks |-> pushed, target |-> tgt,
              mempool |-> PruneMempool(pool, block)]
        ELSE [result |-> Ok, blocks |-> pushed, target |-> adjusted,
              mempool |-> PruneMempool(pool, block)]

(***************************************************************************)
(* blockchain.rs: Blockchain::add_to_mempool.  A mempool entry is          *)
(* [ts, tx]: the arrival time and the transaction.                         *)
(***************************************************************************)
RECURSIVE KnownInputs(_, _, _)
\* the first loop: every input matches a known UTXO and is unique
KnownInputs(ins, known_inputs, m) ==
    IF ins = <<>> THEN Ok
    ELSE LET h == ins[1].prev_transaction_output_hash
         IN  IF h \notin DOMAIN m THEN InvalidTransaction
             ELSE IF h \in known_inputs THEN InvalidTransaction
             ELSE KnownInputs(Tail(ins), known_inputs \cup {h}, m)

\* the index of the first pending transaction one of whose outputs hashes to
\* h (find over iter().enumerate()), or 0 when there is none
ReferencingTransaction(pool, h) ==
    LET found == {i \in 1..Len(pool) :
                     \E j \in 1..Len(pool[i].tx.outputs) :
                         HashOutput(pool[i].tx.outputs[j]) = h}
    IN  IF found = {} THEN 0 ELSE CHOOSE i \in found : \A k \in found : i <= k

RECURSIVE SetMarks(_, _, _)
\* set the marker of every input's UTXO to b
SetMarks(m, ins, b) ==
    IF ins = <<>> THEN m
    ELSE SetMarks(SetMark(m, ins[1].prev_transaction_output_hash, b), Tail(ins), b)

RemoveAt(pool, idx) ==
    [i \in 1..(Len(pool) - 1) |-> IF i < idx THEN pool[i] ELSE pool[i + 1]]

RECURSIVE ResolveConflicts(_, _, _)
\* the second loop: for every input whose UTXO is marked, evict the pending
\* transaction found for it, or unmark the UTXO when none is found
ResolveConflicts(ins, m, pool) ==
    IF ins = <<>> THEN [utxos |-> m, mempool |-> pool]
    ELSE LET h == ins[1].prev_transaction_output_hash
             idx == ReferencingTransaction(pool, h)
         IN  IF h \in DOMAIN m /\ m[h].marked
             THEN IF idx # 0
                  THEN ResolveConflicts(Tail(ins),
                                        SetMarks(m, pool[idx].tx.inputs, FALSE),
                                        RemoveAt(pool, idx))
                  ELSE ResolveConflicts(Tail(ins), SetMark(m, h, FALSE), pool)
             ELSE ResolveConflicts(Tail(ins), m, pool)

RECURSIVE SumInputs(_, _)
\* the mathematical sum of the values of the UTXOs the inputs reference
SumInputs(ins, m) ==
    IF ins = <<>> THEN 0
    ELSE m[ins[1].prev_transaction_output_hash].output.value + SumInputs(Tail(ins), m)

\* the sort key: the miner fee of a pending transaction, or Aborted when
\* computing it panics (a missing UTXO, an overflow)
MinerFee(tx, m) ==
    IF \E i \in 1..Len(tx.inputs) : tx.inputs[i].prev_transaction_output_hash \notin DOMAIN m
    THEN Aborted
    ELSE SubU64(WrapU64(SumInputs(tx.inputs, m)), SumU64(tx.outputs))

RECURSIVE InsertByFee(_, _, _)
\* e placed after every entry whose fee is not above its own
InsertByFee(sorted, e, m) ==
    IF sorted = <<>> THEN <<e>>
    ELSE IF MinerFee(sorted[1].tx, m) <= MinerFee(e.tx, m)
         THEN <<sorted[1]>> \o InsertByFee(Tail(sorted), e, m)
         ELSE <<e>> \o sorted

\* a faulty variant of the sort below that leaves the new entry last; C15
\* must tell it from the original
KeepOrder(pool, m) == pool

RECURSIVE SortByFee(_, _)
\* sort_by_key: a stable sort, ascending by miner fee
SortByFee(pool, m) ==
    IF pool = <<>> THEN <<>>
    ELSE InsertByFee(SortByFee(SubSeq(pool, 1, Len(pool) - 1), m), pool[Len(pool)], m)

\* [result, utxos, mempool] after add_to_mempool(transaction) at time clock
add_to_mempool(m, pool, transaction, clock) ==
    IF KnownInputs(transaction.inputs, {}, m) # Ok
    THEN [result |-> InvalidTransaction, utxos |-> m, mempool |-> pool]
    ELSE LET r == ResolveConflicts(transaction.inputs, m, pool)
             all_inputs == WrapU64(SumInputs(transaction.inputs, r.utxos))
             all_outputs == SumU64(transaction.outputs)
             marked == SetMarks(r.utxos, transaction.inputs, TRUE)
             pushed == Append(r.mempool, [ts |-> clock, tx |-> transaction])
         IN  IF all_inputs = Aborted \/ all_outputs = Aborted
             THEN [result |-> Panic, utxos |-> r.utxos, mempool |-> r.mempool]
             ELSE IF all_inputs < all_outputs
             THEN [result |-> InvalidTransaction, utxos |-> r.utxos, mempool |-> r.mempool]
             \* a slice of fewer than two entries is sorted without a key call
             ELSE IF /\ Len(pushed) >= 2
                     /\ \E i \in 1..Len(pushed) : MinerFee(pushed[i].tx, marked) = Aborted
             THEN [result |-> Panic, utxos |-> marked, mempool |-> pushed]
             ELSE [result |-> Ok, utxos |-> marked, mempool |-> SortByFee(pushed, marked)]

(***************************************************************************)
(* blockchain.rs: Blockchain::cleanup_mempool.                             *)
(***************************************************************************)
Expired(e, clock) == clock - e.ts > MAX_MEMPOOL_TRANSACTION_AGE

RECURSIVE UnmarkExpired(_, _, _)
UnmarkExpired(m, pool, clock) ==
    IF pool = <<>> THEN m
    ELSE UnmarkExpired(IF Expired(pool[1], clock)
                       THEN SetMarks(m, pool[1].tx.inputs, FALSE)
                       ELSE m,
                       Tail(pool), clock)

\* [utxos, mempool] after cleanup_mempool() at time clock
cleanup_mempool(m, pool, clock) ==
    [utxos |-> UnmarkExpired(m, pool, clock),
     mempool |-> SelectSeq(pool, LAMBDA e : ~Expired(e, clock))]

(***************************************************************************)
(* The transactions and blocks the environment submits.                    *)
(***************************************************************************)
Alice == 1
Bob == 2

Reward0 == INITIAL_REWARD * SubUnitsPerCoin

Spend(prev, key) == TransactionInput(prev, Signature(prev, key))

GenesisCoinbase == Transaction(<<>>, <<TransactionOutput(Reward0, 1, Alice)>>)
GenesisKey == HashTransaction(GenesisCoinbase)

\* spends the genesis output and leaves a fee of 2
SpendA == Transaction(<<Spend(GenesisKey, Alice)>>,
                      <<TransactionOutput(Reward0 - 2, 2, Bob)>>)
\* spends the same output and leaves no fee
SpendB == Transaction(<<Spend(GenesisKey, Alice)>>,
                      <<TransactionOutput(Reward0, 3, Bob)>>)
\* pays out more than it spends
SpendOver == Transaction(<<Spend(GenesisKey, Alice)>>,
                         <<TransactionOutput(Reward0 + 1, 4, Bob)>>)
\* names the same output twice
SpendTwice == Transaction(<<Spend(GenesisKey, Alice), Spend(GenesisKey, Alice)>>,
                          <<TransactionOutput(Reward0, 5, Bob)>>)
\* spends the output of SpendA
SpendNext == Transaction(<<Spend(HashTransaction(SpendA), Bob)>>,
                         <<TransactionOutput(Reward0 - 3, 6, Alice)>>)
Coinbase(value) == Transaction(<<>>, <<TransactionOutput(value, 7, Bob)>>)

\* moves nothing
Idle == Transaction(<<>>, <<>>)

\* The transactions a wallet may submit to the mempool when the chain is
\* blks: on the empty chain there is no output to spend.
Submissions(blks) ==
    IF blks = <<>>
    THEN {Idle, SpendA}
    ELSE {SpendA, SpendB, SpendOver, SpendTwice, SpendNext}

\* bodies that pass verify_transactions on top of the genesis block
SoundBodies ==
    { <<Coinbase(Reward0)>>,
      <<Coinbase(Reward0 + 2), SpendA>> }

GenesisBlock ==
    Block(BlockHeader(1, 0, Zero, MerkleRootCalculate(<<GenesisCoinbase>>), MIN_TARGET),
          <<GenesisCoinbase>>)

\* a hash that is no block's, and a root that is no transaction list's
StrayHash == HashBlock(Block(BlockHeader(0, 0, Zero, <<"merkle", Zero>>, 0), <<>>))
StrayRoot == <<"merkle", Zero>>

TipHash(blks) == IF blks = <<>> THEN Zero ELSE HashBlock(blks[Len(blks)])
TipTime(blks) == IF blks = <<>> THEN 1 ELSE blks[Len(blks)].header.timestamp

\* The candidate blocks a miner may submit on top of the chain blks: a
\* sound body under its own root, linked to the tip, with a timestamp
\* before, at or after the tip's; and, with a later timestamp, a block with
\* another previous hash (zero on a chain with a tip, a stray hash on the
\* empty chain), a block whose root is not its body's, and a block with no
\* transaction.
Candidates(blks) ==
    { Block(BlockHeader(ts, 0, TipHash(blks), MerkleRootCalculate(txs), MIN_TARGET), txs) :
        ts \in {t \in {TipTime(blks) - 1, TipTime(blks), TipTime(blks) + 1} : t >= 0},
        txs \in SoundBodies }
    \cup
    { Block(BlockHeader(TipTime(blks) + 1, 0,
                        IF blks = <<>> THEN StrayHash ELSE Zero,
                        MerkleRootCalculate(<<Coinbase(Reward0)>>), MIN_TARGET),
            <<Coinbase(Reward0)>>) }
    \cup
    { Block(BlockHeader(TipTime(blks) + 1, 0, TipHash(blks), StrayRoot, MIN_TARGET), txs) :
        txs \in {<<>>, <<Coinbase(Reward0)>>} }

(***************************************************************************)
(* The state machine.  A Blockchain value comes from Blockchain::new() or  *)
(* from Saveable::load, which reads blocks, target and utxos from a file   *)
(* and leaves the mempool empty (#[serde(default, skip_serializing)]).     *)
(***************************************************************************)
New ==
    /\ blocks = <<>>
    /\ utxos = EmptyMap
    /\ target = MIN_TARGET
    /\ mempool = <<>>
    /\ op = "new"

\* the file holds a chain of one well-formed block and the UTXO map of it
Load ==
    /\ blocks = <<GenesisBlock>>
    /\ utxos = rebuild_utxos(EmptyMap, <<GenesisBlock>>)
    /\ target = MIN_TARGET
    /\ mempool = <<>>
    /\ op = "load"

Init ==
    /\ New \/ Load
    /\ now = 0
    /\ overflow_checks \in BOOLEAN
    /\ arg = <<>>
    /\ result = Ok

\* a panic ends the process
Running == result # Panic

AddBlock ==
    /\ Running
    /\ Len(blocks) < MaxBlocks
    /\ \E block \in Candidates(blocks) :
         LET r == add_block(blocks, target, utxos, mempool, block)
         IN  /\ blocks' = r.blocks
             /\ target' = r.target
             /\ mempool' = r.mempool
             /\ result' = r.result
             /\ arg' = block
    /\ op' = "add_block"
    /\ UNCHANGED <<utxos, now, overflow_checks>>

RebuildUtxos ==
    /\ Running
    /\ utxos' = rebuild_utxos(utxos, blocks)
    /\ op' = "rebuild_utxos"
    /\ arg' = <<>>
    /\ result' = Ok
    /\ UNCHANGED <<blocks, target, mempool, now, overflow_checks>>

AddToMempool ==
    /\ Running
    /\ Len(mempool) < MaxMempool
    /\ \E transaction \in Submissions(blocks) :
         LET r == add_to_mempool(utxos, mempool, transaction, now)
         IN  /\ utxos' = r.utxos
             /\ mempool' = r.mempool
             /\ result' = r.result
             /\ arg' = transaction
    /\ op' = "add_to_mempool"
    /\ UNCHANGED <<blocks, target, now, overflow_checks>>

CleanupMempool ==
    /\ Running
    /\ LET r == cleanup_mempool(utxos, mempool, now)
       IN  /\ utxos' = r.utxos
           /\ mempool' = r.mempool
    /\ op' = "cleanup_mempool"
    /\ arg' = <<>>
    /\ result' = Ok
    /\ UNCHANGED <<blocks, target, now, overflow_checks>>

\* time passes between calls
Tick ==
    /\ Running
    /\ now < MaxTime
    /\ now' = now + 1
    /\ UNCHANGED <<blocks, target, utxos, mempool, overflow_checks, op, arg, result>>

Next == AddBlock \/ RebuildUtxos \/ AddToMempool \/ CleanupMempool \/ Tick

Spec == Init /\ [][Next]_vars

(***************************************************************************)
(* Block::verify_transactions and Block::verify_coinbase_transaction as    *)
(* functions of their inputs: a block, a height and a UTXO map.  Init      *)
(* draws the inputs; one call is made on them.                             *)
(***************************************************************************)
Fund1 == Transaction(<<>>, <<TransactionOutput(5, 11, Alice)>>)
Fund2 == Transaction(<<>>, <<TransactionOutput(3, 12, Bob)>>)
\* an output of the largest amount
FundMax == Transaction(<<>>, <<TransactionOutput(U64Mod - 1, 13, Alice)>>)
Key1 == HashTransaction(Fund1)
Key2 == HashTransaction(Fund2)
KeyMax == HashTransaction(FundMax)
\* the hash of a transaction no block holds
KeyNone == HashTransaction(Transaction(<<>>, <<TransactionOutput(1, 14, Bob)>>))

VerifyUtxos ==
    { rebuild_utxos(EmptyMap, <<Block(GenesisBlock.header, txs)>>) :
        txs \in {<<>>, <<Fund1, Fund2>>, <<Fund1, Fund2, FundMax>>} }

Pay(value, id) == <<TransactionOutput(value, id, Bob)>>

VerifySpends ==
    { Transaction(<<Spend(Key1, Alice)>>, Pay(4, 21)),               \* fee 1
      Transaction(<<Spend(Key1, Alice)>>, Pay(2, 22)),               \* fee 3
      Transaction(<<Spend(Key1, Bob)>>, Pay(2, 23)),                 \* signed by another key
      Transaction(<<Spend(Key2, Bob)>>, Pay(3, 24)),                 \* fee 0
      Transaction(<<Spend(Key2, Bob)>>, Pay(4, 21)),                 \* pays 1 too much
      Transaction(<<Spend(Key2, Bob), Spend(Key2, Bob)>>, Pay(1, 25)), \* Key2 twice
      Transaction(<<Spend(KeyNone, Bob)>>, Pay(1, 26)),              \* no such output
      Transaction(<<Spend(KeyMax, Alice), Spend(Key1, Alice)>>, Pay(1, 27)) }

VerifyCoinbases ==
    { Transaction(<<>>, Pay(v, 31)) : v \in {0, Reward0 - 1, Reward0, Reward0 + 1, Reward0 + 3} }
    \cup
    { Transaction(<<>>, <<>>),
      Transaction(<<Spend(Key1, Alice)>>, Pay(Reward0, 31)),
      \* two outputs whose total is 2^64 more than the height-0 reward
      Transaction(<<>>, <<TransactionOutput(U64Mod \div 2, 32, Bob),
                          TransactionOutput(U64Mod \div 2 + Reward0, 33, Bob)>>) }

VerifyBodies ==
    {<<>>}
    \cup { <<c>> : c \in VerifyCoinbases }
    \cup { <<c, s>> : c \in VerifyCoinbases, s \in VerifySpends }
    \cup { <<c, s, t>> : c \in VerifyCoinbases, s \in VerifySpends, t \in VerifySpends }

\* heights up to the first at which the halving count no longer fits the cast
VerifyHeights ==
    {0, 1, HALVING_INTERVAL, HALVING_INTERVAL * (U64Bits - 1),
     HALVING_INTERVAL * U64Bits, HALVING_INTERVAL * U32Mod}

InitVerify ==
    /\ blocks = <<>>
    /\ target = MIN_TARGET
    /\ mempool = <<>>
    /\ now = 0
    /\ utxos \in VerifyUtxos
    /\ overflow_checks \in BOOLEAN
    /\ op = "input"
    /\ arg \in { [block |-> Block(GenesisBlock.header, txs), height |-> h] :
                    txs \in VerifyBodies, h \in VerifyHeights }
    /\ result = Ok

VerifyTransactions ==
    /\ op = "input"
    /\ op' = "verify_transactions"
    /\ result' = verify_transactions(arg.block, arg.height, Outputs(utxos))
    /\ UNCHANGED <<blocks, target, utxos, mempool, now, overflow_checks, arg>>

VerifyCoinbaseTransaction ==
    /\ op = "input"
    /\ op' = "verify_coinbase_transaction"
    /\ result' = verify_coinbase_transaction(arg.block, arg.height, Outputs(utxos))
    /\ UNCHANGED <<blocks, target, utxos, mempool, now, overflow_checks, arg>>

CalculateMinerFees ==
    /\ op = "input"
    /\ op' = "calculate_miner_fees"
    /\ result' = calculate_miner_fees(arg.block, Outputs(utxos)).err
    /\ UNCHANGED <<blocks, target, utxos, mempool, now, overflow_checks, arg>>

NextVerify == VerifyTransactions \/ VerifyCoinbaseTransaction \/ CalculateMinerFees

SpecVerify == InitVerify /\ [][NextVerify]_vars

(***************************************************************************)
(* The operations of Blockchain as functions of the ledger they are called *)
(* on.  Init draws a ledger as Saveable::load may restore it: a linked     *)
(* chain with any header timestamps and any target; one call is made on it.*)
(***************************************************************************)
RECURSIVE ChainOf(_)
\* the linked chain whose blocks carry the header timestamps times
ChainOf(times) ==
    IF times = <<>> THEN <<>>
    ELSE LET front == ChainOf(SubSeq(times, 1, Len(times) - 1))
             body == IF front = <<>> THEN <<GenesisCoinbase>> ELSE <<Coinbase(Reward0)>>
         IN  Append(front,
                    Block(BlockHeader(times[Len(times)], 0, TipHash(front),
                                      MerkleRootCalculate(body), MIN_TARGET),
                          body))

\* chains short of the second retarget, so that one more block reaches a
\* length that is or is not a multiple of DIFFICULTY_UPDATE_INTERVAL
RetargetChains ==
    { ChainOf(times) :
        times \in UNION { [1..n -> 0..MaxTime] :
                            n \in 1..(2 * DIFFICULTY_UPDATE_INTERVAL - 1) } }

\* targets from zero to the largest 256-bit number
RetargetTargets ==
    {0, 1, 3, 4, MIN_TARGET \div 2, MIN_TARGET, MIN_TARGET + 1,
     U256Mod \div 4 - 1, U256Mod \div 4, U256Mod - 1}

InitRetarget ==
    /\ blocks \in RetargetChains
    /\ target \in RetargetTargets
    /\ utxos = rebuild_utxos(EmptyMap, blocks)
    /\ mempool = <<>>
    /\ now = 0
    /\ overflow_checks \in BOOLEAN
    /\ op = "input"
    /\ arg = <<>>
    /\ result = Ok

AddBlockOnce ==
    /\ op = "input"
    /\ \E block \in Candidates(blocks) :
         LET r == add_block(blocks, target, utxos, mempool, block)
         IN  /\ blocks' = r.blocks
             /\ target' = r.target
             /\ mempool' = r.mempool
             /\ result' = r.result
             /\ arg' = block
    /\ op' = "add_block"
    /\ UNCHANGED <<utxos, now, overflow_checks>>

RebuildUtxosOnce ==
    /\ op = "input"
    /\ utxos' = rebuild_utxos(utxos, blocks)
    /\ op' = "rebuild_utxos"
    /\ result' = Ok
    /\ UNCHANGED <<blocks, target, mempool, now, overflow_checks, arg>>

AddToMempoolOnce ==
    /\ op = "input"
    /\ \E transaction \in Submissions(blocks) :
         LET r == add_to_mempool(utxos, mempool, transaction, now)
         IN  /\ utxos' = r.utxos
             /\ mempool' = r.mempool
             /\ result' = r.result
             /\ arg' = transaction
    /\ op' = "add_to_mempool"
    /\ UNCHANGED <<blocks, target, now, overflow_checks>>

CleanupMempoolOnce ==
    /\ op = "input"
    /\ LET r == cleanup_mempool(utxos, mempool, now)
       IN  /\ utxos' = r.utxos
           /\ mempool' = r.mempool
    /\ op' = "cleanup_mempool"
    /\ result' = Ok
    /\ UNCHANGED <<blocks, target, now, overflow_checks, arg>>

NextRetarget == AddBlockOnce \/ RebuildUtxosOnce \/ AddToMempoolOnce \/ CleanupMempoolOnce

SpecRetarget == InitRetarget /\ [][NextRetarget]_vars

(***************************************************************************)
(* Properties.                                                             *)
(***************************************************************************)
\* The step is a call of add_block: every call sets op, and the only step
\* that keeps it, Tick, moves the clock.
AddBlockCall == op' = "add_block" /\ now' = now

Tip == blocks[Len(blocks)]

Range(seq) == {seq[i] : i \in 1..Len(seq)}

\* the hashes the inputs of a sequence of transactions reference
InputKeys(txs) ==
    UNION { {tx.inputs[j].prev_transaction_output_hash : j \in 1..Len(tx.inputs)} :
              tx \in Range(txs) }

\* C1: on an empty ledger, add_block(candidate) returns Ok and leaves the
\* chain holding exactly the candidate when the candidate's
\* prev_block_hash is Hash::zero(), and returns InvalidBlock and leaves the
\* chain empty otherwise.
C1_EmptyLedgerAccepts ==
    [][ (AddBlockCall /\ blocks = <<>>) =>
            IF arg'.header.prev_block_hash = Zero
            THEN result' = Ok /\ blocks' = <<arg'>>
            ELSE result' = InvalidBlock /\ blocks' = <<>> ]_vars

\* C2: add_block on a non-empty chain returns InvalidBlock and appends
\* nothing whenever the candidate's prev_block_hash is not the hash of the
\* tip.
C2_LinkageEnforced ==
    [][ ( /\ AddBlockCall
          /\ blocks # <<>>
          /\ arg'.header.prev_block_hash # HashBlock(Tip) ) =>
            (result' = InvalidBlock /\ blocks' = blocks) ]_vars

\* C3: add_block on a non-empty chain returns InvalidBlock and appends
\* nothing whenever the candidate's timestamp is not after the tip's.
C3_TimestampsIncrease ==
    [][ ( /\ AddBlockCall
          /\ blocks # <<>>
          /\ arg'.header.timestamp <= Tip.header.timestamp ) =>
            (result' = InvalidBlock /\ blocks' = blocks) ]_vars

\* C4: add_block on a non-empty chain returns InvalidMerkleRoot and appends
\* nothing whenever the candidate's merkle_root is not the root calculated
\* over its transactions.
C4_MerkleRootEnforced ==
    [][ ( /\ AddBlockCall
          /\ blocks # <<>>
          /\ arg'.transactions # <<>>
          /\ arg'.header.merkle_root # MerkleRootCalculate(arg'.transactions) ) =>
            (result' = InvalidMerkleRoot /\ blocks' = blocks) ]_vars

\* C5: after add_block accepts a valid block on a non-empty chain, the UTXO
\* map holds no key that an input of the block references and holds the
\* hash of every transaction of the block that has an output.
C5_AcceptedBlockUpdatesUtxos ==
    [][ ( /\ AddBlockCall
          /\ blocks # <<>>
          /\ LaterBlockChecks(blocks, utxos, arg') = Ok
          /\ result' = Ok ) =>
            /\ InputKeys(arg'.transactions) \cap DOMAIN utxos' = {}
            /\ \A tx \in Range(arg'.transactions) :
                   tx.outputs # <<>> => HashTransaction(tx) \in DOMAIN utxos' ]_vars

\* C6: while the process runs, the keys and outputs of the UTXO map are
\* those of the replay of the committed blocks from an empty map.
C6_UtxosAreReplay ==
    Running =>
        LET replay == rebuild_utxos(EmptyMap, blocks)
        IN  /\ DOMAIN utxos = DOMAIN replay
            /\ \A k \in DOMAIN utxos : utxos[k].output = replay[k].output

\* C7: whenever add_block returns an error, blocks, utxos, mempool and
\* target are as they were before the call.
C7_AddBlockAtomic ==
    [][ (AddBlockCall /\ result' \in SbdError) =>
            UNCHANGED <<blocks, utxos, mempool, target>> ]_vars

\* add_block has returned an error with a transaction pending
C7_Witness ==
    /\ op = "add_block"
    /\ result \in SbdError
    /\ mempool # <<>>

(***************************************************************************)
(* Properties of the verification functions (SpecVerify).                  *)
(***************************************************************************)
\* the transactions after the coinbase
Spends(block) ==
    IF block.transactions = <<>> THEN <<>> ELSE Tail(block.transactions)

\* two inputs of the transactions after the coinbase reference one hash
DoubleSpend(block) ==
    \E s, t \in 1..Len(Spends(block)) :
        \E i \in 1..Len(Spends(block)[s].inputs), j \in 1..Len(Spends(block)[t].inputs) :
            /\ <<s, i>> # <<t, j>>
            /\ Spends(block)[s].inputs[i].prev_transaction_output_hash
                 = Spends(block)[t].inputs[j].prev_transaction_output_hash

\* an input of the transactions after the coinbase references no UTXO
UnknownSpend(block, m) == InputKeys(Spends(block)) \ DOMAIN m # {}

\* C8: verify_coinbase_transaction succeeds only if the first transaction
\* has no input, at least one output, and outputs whose values sum to
\* block_reward(height) + miner_fees(block) exactly.
C8_CoinbaseExact ==
    (op = "verify_coinbase_transaction" /\ result = Ok) =>
        LET coinbase == arg.block.transactions[1]
            fees == calculate_miner_fees(arg.block, Outputs(utxos))
        IN  /\ Len(coinbase.inputs) = 0
            /\ Len(coinbase.outputs) >= 1
            /\ fees.err = Ok
            /\ block_reward(arg.height) # Aborted
            /\ SumValues(coinbase.outputs) = block_reward(arg.height) + fees.val

\* C9: verify_transactions returns InvalidTransaction for every block in
\* which two inputs of non-coinbase transactions reference the same hash,
\* and for every block with a non-coinbase input whose hash is not a key of
\* the UTXO map.
C9_DoubleSpendRejected ==
    (op = "verify_transactions"
       /\ (DoubleSpend(arg.block) \/ UnknownSpend(arg.block, utxos))) =>
        result = InvalidTransaction

\* verify_transactions has rejected a block with a sound coinbase, every
\* input resolved, and one output spent by two of its transactions
C9_Witness ==
    /\ op = "verify_transactions"
    /\ result = InvalidTransaction
    /\ Len(arg.block.transactions) = 3
    /\ verify_coinbase_transaction(Block(arg.block.header, <<arg.block.transactions[1]>>),
                                   arg.height, Outputs(utxos)) = Ok
    /\ ~UnknownSpend(arg.block, utxos)
    /\ Len(arg.block.transactions[2].inputs) = 1
    /\ arg.block.transactions[2].inputs = arg.block.transactions[3].inputs

\* C10: verify_transactions returns Ok or one of the typed errors on every
\* block, height and UTXO map; it never terminates abnormally.
C10_NeverAborts ==
    op = "verify_transactions" => result \in {Ok} \cup SbdError

(***************************************************************************)
(* Properties of the mempool (Spec).                                       *)
(***************************************************************************)
\* the transactions of the committed blocks
Committed(blks) == UNION { Range(blks[i].transactions) : i \in 1..Len(blks) }

\* the pending transactions, in mempool order
Pending(pool) == [i \in 1..Len(pool) |-> pool[i].tx]

\* C11: right after a successful add_block(B) the mempool is the mempool
\* before the call without the entries whose transaction is in B, in the
\* same order; and in every state no pending transaction is a transaction
\* of a committed block.
C11_MempoolExcludesCommitted ==
    [][ /\ (AddBlockCall /\ result' = Ok) =>
              mempool' = SelectSeq(mempool,
                                   LAMBDA e : e.tx \notin Range(arg'.transactions))
        /\ result' # Panic =>
              Range(Pending(mempool')) \cap Committed(blocks') = {} ]_vars

\* a step that is a call of add_to_mempool
AddToMempoolCall == op' = "add_to_mempool" /\ now' = now

\* the UTXO keys the inputs of a transaction name
Reserves(tx) == InputKeys(<<tx>>)

\* the mempool positions of the pending transactions, other than tx, that
\* hold a reservation on a UTXO an input of tx names
Conflicting(pool, m, tx) ==
    { i \in 1..Len(pool) :
        /\ pool[i].tx # tx
        /\ \E k \in Reserves(pool[i].tx) \cap Reserves(tx) : k \in DOMAIN m /\ m[k].marked }

\* every input of tx names a UTXO, none twice, and the inputs cover the outputs
Admissible(tx, m) ==
    /\ KnownInputs(tx.inputs, {}, m) = Ok
    /\ SumInputs(tx.inputs, m) >= SumValues(tx.outputs)

\* C12: when add_to_mempool(T) is called with an admissible T one of whose
\* inputs names a UTXO reserved by a pending transaction P, then after the
\* call P is not pending, every UTXO P reserved that T does not name is
\* unmarked, and T is pending with every UTXO it names marked.
C12_ConflictEvicts ==
    [][ (AddToMempoolCall /\ Admissible(arg', utxos)
           /\ Conflicting(mempool, utxos, arg') # {}) =>
            /\ result' = Ok
            /\ \A i \in Conflicting(mempool, utxos, arg') :
                   /\ mempool[i].tx \notin Range(Pending(mempool'))
                   /\ \A k \in Reserves(mempool[i].tx) \ Reserves(arg') :
                          ~utxos'[k].marked
            /\ arg' \in Range(Pending(mempool'))
            /\ \A k \in Reserves(arg') : utxos'[k].marked ]_vars

\* C13: no UTXO key is named by inputs of two distinct pending transactions.
C13_NoMempoolDoubleSpend ==
    Running =>
        \A i, j \in 1..Len(mempool) :
            mempool[i].tx # mempool[j].tx => Reserves(mempool[i].tx) \cap Reserves(mempool[j].tx) = {}

\* C14: whenever add_to_mempool returns InvalidTransaction, the mempool and
\* every UTXO marker are as they were before the call.
C14_AddToMempoolAtomic ==
    [][ (AddToMempoolCall /\ result' = InvalidTransaction) =>
            UNCHANGED <<mempool, utxos>> ]_vars

\* every input of tx names a UTXO of m
Resolvable(tx, m) == Reserves(tx) \subseteq DOMAIN m

\* the fee of a pending transaction: the values of the UTXOs its inputs
\* name minus the values of its outputs
Fee(tx, m) == SumInputs(tx.inputs, m) - SumValues(tx.outputs)

CleanupMempoolCall == op' = "cleanup_mempool" /\ now' = now

\* the UTXO keys named by the entries of pool at the positions idx
ReservedBy(pool, idx) == UNION { Reserves(pool[i].tx) : i \in idx }

\* the positions of the entries of pool older than
\* MAX_MEMPOOL_TRANSACTION_AGE at time clock
Old(pool, clock) ==
    { i \in 1..Len(pool) : clock - pool[i].ts > MAX_MEMPOOL_TRANSACTION_AGE }

\* C16: cleanup_mempool removes exactly the entries older than
\* MAX_MEMPOOL_TRANSACTION_AGE, unmarks every UTXO a removed entry names,
\* and leaves as they were the other entries, the marker of every UTXO a
\* remaining entry names, the blocks, the target and the UTXO key set.
C16_CleanupFrame ==
    [][ CleanupMempoolCall =>
          LET old == Old(mempool, now)
              young == (1..Len(mempool)) \ old
          IN  /\ mempool' = SelectSeq(mempool,
                                      LAMBDA e : now - e.ts <= MAX_MEMPOOL_TRANSACTION_AGE)
              /\ \A k \in ReservedBy(mempool, old) \cap DOMAIN utxos : ~utxos'[k].marked
              /\ \A k \in ReservedBy(mempool, young) \cap DOMAIN utxos :
                     utxos'[k].marked = utxos[k].marked
              /\ DOMAIN utxos' = DOMAIN utxos
              /\ UNCHANGED <<blocks, target>> ]_vars

(***************************************************************************)
(* Properties of the retarget (SpecRetarget) and of the reward             *)
(* (SpecVerify).                                                           *)
(***************************************************************************)
\* the step appends a block and the chain reaches a retarget boundary
Fires ==
    /\ AddBlockCall
    /\ Len(blocks') = Len(blocks) + 1
    /\ Len(blocks') % DIFFICULTY_UPDATE_INTERVAL = 0

\* C17: add_block leaves the target as it was unless it appends a block and
\* the chain length then is a positive multiple of
\* DIFFICULTY_UPDATE_INTERVAL; add_to_mempool, cleanup_mempool and
\* rebuild_utxos leave the target as it was.
C17_TargetChangesAtBoundary ==
    [][ ( \/ AddBlockCall /\ ~Fires
          \/ now' = now /\ op' \in {"add_to_mempool", "cleanup_mempool", "rebuild_utxos"} )
        => target' = target ]_vars

\* add_block has appended a block off a retarget boundary, after a span that
\* would have changed the target at a boundary
C17_Witness ==
    /\ op = "add_block"
    /\ result = Ok
    /\ Len(blocks) > DIFFICULTY_UPDATE_INTERVAL
    /\ Len(blocks) % DIFFICULTY_UPDATE_INTERVAL # 0
    /\ TimeDiffSeconds(blocks) = 0
    /\ target = MIN_TARGET

\* C18: every retarget that fires completes, and the new target is at least
\* a quarter of the target before, at most four times it, and at most
\* MIN_TARGET.
C18_RetargetBounds ==
    [][ Fires =>
          /\ result' = Ok
          /\ target' >= target \div 4
          /\ target' <= target * 4
          /\ target' <= MIN_TARGET ]_vars

\* floor(INITIAL_REWARD * 10^8 / 2^floor(height / HALVING_INTERVAL))
HalvingReward(height) ==
    (INITIAL_REWARD * SubUnitsPerCoin) \div (2 ^ (height \div HALVING_INTERVAL))

\* C19: at every height the reward verify_coinbase_transaction uses is
\* floor(INITIAL_REWARD * 10^8 / 2^floor(height / HALVING_INTERVAL)).
C19_HalvingSchedule ==
    op = "verify_coinbase_transaction" =>
        block_reward(arg.height) = HalvingReward(arg.height)

\* the number new_target_str spells
Unclamped(blks, tgt) ==
    LET str == NewTargetStr(blks, tgt)
    IN  IF str.negative THEN -str.whole ELSE str.whole

\* the header timestamp of the block back positions before the last one
TimestampBack(blks, back) == blks[Len(blks) - back].header.timestamp

\* C20: when a retarget fires, the unclamped new target is the target times
\* actual_span / ideal_span truncated toward zero, actual_span being the
\* seconds from the block DIFFICULTY_UPDATE_INTERVAL positions before the
\* appended block to the appended block (where the chain has such a block).
C20_RetargetComputation ==
    [][ (Fires /\ Len(blocks') > DIFFICULTY_UPDATE_INTERVAL) =>
          Unclamped(blocks', target)
            = TruncDiv(target * (TimestampBack(blocks', 0)
                                   - TimestampBack(blocks', DIFFICULTY_UPDATE_INTERVAL)),
                       IDEAL_BLOCK_TIME * DIFFICULTY_UPDATE_INTERVAL) ]_vars

(***************************************************************************)
(* Properties of the fee bookkeeping (SpecVerify).                         *)
(***************************************************************************)
\* input total minus output total of one transaction, as verify_transactions
\* accumulates them; m maps a hash to its UTXO entry
TransactionFee(tx, m) == SumInputs(tx.inputs, m) - SumValues(tx.outputs)

RECURSIVE SumFees(_, _)
\* the sum of TransactionFee over a sequence of transactions
SumFees(txs, m) ==
    IF txs = <<>> THEN 0
    ELSE TransactionFee(txs[1], m) + SumFees(Tail(txs), m)

\* two outputs of the transactions after the coinbase have one output hash
DuplicateOutput(block) ==
    \E s, t \in 1..Len(Spends(block)) :
        \E i \in 1..Len(Spends(block)[s].outputs), j \in 1..Len(Spends(block)[t].outputs) :
            /\ <<s, i>> # <<t, j>>
            /\ HashOutput(Spends(block)[s].outputs[i]) = HashOutput(Spends(block)[t].outputs[j])

\* C21: when calculate_miner_fees returns Ok(f), f is the sum over the
\* transactions after the coinbase of input total minus output total; and
\* it returns InvalidTransaction exactly when an input of those
\* transactions is unresolved or named twice, or two of their outputs have
\* the same output hash.
C21_FeeBookkeepingAgrees ==
    op = "calculate_miner_fees" =>
        /\ result = Ok =>
             calculate_miner_fees(arg.block, Outputs(utxos)).val
               = SumFees(Spends(arg.block), utxos)
        /\ result = InvalidTransaction <=>
             \/ UnknownSpend(arg.block, utxos)
             \/ DoubleSpend(arg.block)
             \/ DuplicateOutput(arg.block)

(***************************************************************************)
(* Properties of the reservation markers (Spec).                           *)
(***************************************************************************)
\* C22: while the process runs, every input of every pending transaction
\* names a key of the UTXO map.
C22_PendingInputsResolvable ==
    Running => \A i \in 1..Len(mempool) : Resolvable(mempool[i].tx, utxos)

\* C24: while the process runs, the marker of a UTXO is true if and only if
\* an input of some pending transaction names that UTXO.
C24_MarkersMatchMempool ==
    Running =>
        \A k \in DOMAIN utxos :
            utxos[k].marked <=> k \in ReservedBy(mempool, 1..Len(mempool))

(***************************************************************************)
(* MerkleRoot::calculate as a function of the transaction list.  Init      *)
(* draws two lists; one step computes the root of each.                    *)
(***************************************************************************)
MerkleTransactions == {GenesisCoinbase, SpendA}

MerkleLists == UNION { [1..n -> MerkleTransactions] : n \in 0..MerkleMaxLen }

InitMerkle ==
    /\ blocks = <<>>
    /\ target = MIN_TARGET
    /\ utxos = EmptyMap
    /\ mempool = <<>>
    /\ now = 0
    /\ overflow_checks \in BOOLEAN
    /\ op = "input"
    /\ arg \in MerkleLists \X MerkleLists
    /\ result = Ok

MerkleCalculate ==
    /\ op = "input"
    /\ op' = "merkle_root"
    /\ result' = <<MerkleRootCalculate(arg[1]), MerkleRootCalculate(arg[2])>>
    /\ UNCHANGED <<blocks, target, utxos, mempool, now, overflow_checks, arg>>

NextMerkle == MerkleCalculate

SpecMerkle == InitMerkle /\ [][NextMerkle]_vars

\* the root of a list of up to four transactions, level by level
PairedRoot(txs) ==
    LET h(i) == HashTransaction(txs[i])
    IN  IF Len(txs) = 1 THEN h(1)
        ELSE IF Len(txs) = 2 THEN HashPair(h(1), h(2))
        ELSE IF Len(txs) = 3
             THEN HashPair(HashPair(h(1), h(2)), HashPair(h(3), h(3)))
        ELSE HashPair(HashPair(h(1), h(2)), HashPair(h(3), h(4)))

\* C23: the root of one transaction is its hash; each level pairs adjacent
\* hashes and pairs an unpaired last hash with itself; two non-empty lists
\* of the same length have the same root only if they are equal; equal
\* lists have equal roots; and a list of odd length above one has the root
\* of the list with its last transaction appended once more.
C23_MerkleRootProperties ==
    op = "merkle_root" =>
        /\ Len(arg[1]) = 1 => result[1] = <<"merkle", HashTransaction(arg[1][1])>>
        /\ Len(arg[1]) \in 1..4 => result[1] = <<"merkle", PairedRoot(arg[1])>>
        /\ arg[1] = arg[2] => result[1] = result[2]
        /\ (arg[1] # <<>> /\ Len(arg[1]) = Len(arg[2]) /\ result[1] = result[2])
              => arg[1] = arg[2]
        /\ (Len(arg[1]) > 1 /\ Len(arg[1]) % 2 = 1
              /\ arg[2] = Append(arg[1], arg[1][Len(arg[1])]))
              => result[1] = result[2]

\* the roots of a list of three transactions and of that list with its last
\* transaction repeated have been computed
C23_Witness ==
    /\ op = "merkle_root"
    /\ Len(arg[1]) = 3
    /\ arg[1][1] # arg[1][3]
    /\ arg[2] = Append(arg[1], arg[1][3])
    /\ result[1] = result[2]
    /\ result[1] # MerklePanic

====
